---- MODULE Spec2Model ----
(***************************************************************************)
(* Exam-session controller of secureexam24/CODE-ASSESS-FINAL.              *)
(*                                                                         *)
(* The model follows src/src/pages/Index.tsx (the phase machine) and the   *)
(* ExamInterface component in src/src/components/AccessCodeEntry.tsx       *)
(* (lines 211-815): its React state, the closures its effects and          *)
(* callbacks capture, the asynchronous calls to the durable store, and the *)
(* browser's full-screen state.                                            *)
(*                                                                         *)
(* React semantics that the model states explicitly:                       *)
(*  - a function created in a render sees the state of THAT render; an     *)
(*    effect with dependency list [] keeps the functions of the first      *)
(*    render, a useCallback with deps [toast, submissionId] keeps those of *)
(*    the render in which submissionId last changed (toast is the stable   *)
(*    module-level function of the use-toast hook);                        *)
(*  - an await suspends only the calling function: other handlers run      *)
(*    while it waits;                                                      *)
(*  - passive effects (useEffect bodies and their cleanups) run after the  *)
(*    commit, as steps of their own: events, clock ticks and completions   *)
(*    of store calls can come between a commit and its effects.  React     *)
(*    runs the effects still pending before the commit that unmounts the   *)
(*    component.                                                           *)
(* Time is counted in whole seconds.                                       *)
(***************************************************************************)
EXTENDS Integers, Sequences, FiniteSets, TLC

\* ---------------------------------------------------------------- bounds
NQ == 2            \* questions returned by the question source
MaxNow == 2        \* wall-clock horizon (seconds)
MaxEnd == 2        \* latest exam end time (seconds)
MaxSaves == 2      \* saveAnswer calls per session
MaxSubmits == 2    \* submitExam invocations that pass the submissionId guard
MaxExpiry == 2     \* timer ticks observed with prev <= 1

Null == "null"                    \* a null string (submissionId)
NoRow == [absent |-> TRUE]        \* no row / no Map entry / undefined
NotSubmitted == -1                \* submitted_at IS NULL
NoSelection == ""                 \* currentAnswer?.selectedAnswer || ''
NoToast == "none"                 \* no toast() call yet
Options == {"A", "B"}             \* option labels rendered by the UI (subset of A..D)
StartTimes == {0, 1}              \* exam.startTime values: at time 0, or later
EndTimes == {0, MaxEnd}           \* exam.endTime values: already over at time 0, or not

\* String.prototype.toLowerCase on the labels that occur
toLowerCase(s) ==
  CASE s = "A" -> "a"
    [] s = "B" -> "b"
    [] s = "C" -> "c"
    [] s = "D" -> "d"
    [] OTHER -> s

\* Math.max
Max(a, b) == IF a >= b THEN a ELSE b

\* The rows the question source can return: correct_answer per question, in
\* question_order.  Question 1 is stored in upper or in lower case.
QuestionBanks == { [i \in 1..NQ |-> IF i = 1 THEN c ELSE "b"] : c \in {"A", "a"} }

QuestionIds == 1..NQ

\* new Map(): no AnswerRecord for any question
NoAnswers == [q \in QuestionIds |-> NoRow]

\* ----------------------------------------------------------------- state
VARIABLES
  currentPhase,         \* Index: 'access' | 'registration' | 'exam' | 'completed'
  exam,                 \* Index: exam (startTime, endTime) or NoRow
  student,              \* Index: student set or not
  now,                  \* wall clock, seconds
  dbExam,               \* table exams: the row the access code selects
  pcLoad,               \* ExamInterface and fetchQuestions: "unmounted" | "rendered" | "fetching" | "loaded" | "empty" | "error" | "ended"
  pcCreate,             \* createSubmission: "idle" | "inserting" | "created" | "failed"
  questions,            \* useState<Question[]>: sequence of correctAnswer, index = question id
  currentQuestionIndex, \* useState(0)
  answers,              \* useState<Map<string, Answer>>
  timeRemaining,        \* useState(0)
  timerRunning,         \* the interval of the timer effect is set
  isFullscreen,         \* useState(false)
  isFullscreenRef,      \* useRef(isFullscreen)
  pendingAutoSubmit,    \* useRef(false)
  questionStartTime,    \* useState(Date.now())
  submissionId,         \* useState<string | null>(null)
  fsClosure,            \* state seen by handleFullscreenChange and by the pending-submit effect
  fullscreenElement,    \* document.fullscreenElement is set
  fsRequest,            \* requestFullscreen(): "none" | "pending" | "granted" | "denied"
  fsEvents,             \* fullscreenchange events queued by the browser, not yet dispatched
  listenersRegistered,  \* the fullscreenchange and visibilitychange listeners are on document
  hidden,               \* document.hidden
  timeouts,             \* pending setTimeout(() => submitExam(true), 2000) callbacks
  inflight,             \* response upserts issued by saveAnswer, not yet completed
  subs,                 \* submitExam invocations past the guard, in call order
  dbSubmission,         \* the row of table submissions, or NoRow
  dbResponses,          \* table responses: a set of rows
  submissionRows,       \* table submissions: rows inserted by this session
  peer,                 \* a second browser, same student and exam: "idle" | "blocked" | "started" | "ended" | "fetching" | "empty" | "error" | "loaded" | "inserting" | "created" | "failed"
  peerRow,              \* table submissions: the row inserted by the second browser exists
  lastToast,            \* title of the last toast() call of ExamInterface
  rowReplaced,          \* history: an upsert has met a row with its key
  upsertErrors,         \* history: upserts of saveAnswer that returned an error
  savesIssued,          \* history: number of saveAnswer calls
  expirySignals,        \* history: timer calls of submitExam(true)
  violationsRaised,     \* history: violation branches taken by handleFullscreenChange
  submittedWrites,      \* history: successful writes of submitted_at
  exitsBeforeId         \* history: full-screen exits dispatched, after full-screen was entered, while submissionId is null

indexVars == <<currentPhase, exam, student>>
loadVars == <<pcLoad, pcCreate, questions, submissionId, fsClosure>>
uiVars == <<currentQuestionIndex, answers, questionStartTime, savesIssued>>
timerVars == <<timeRemaining, timerRunning, expirySignals>>
fsVars == <<isFullscreen, isFullscreenRef, pendingAutoSubmit, fullscreenElement,
            fsRequest, fsEvents, listenersRegistered, violationsRaised, exitsBeforeId, hidden>>
submitVars == <<timeouts, subs, dbSubmission, submittedWrites, submissionRows>>
respVars == <<inflight, dbResponses, rowReplaced, upsertErrors>>
peerVars == <<peer, peerRow>>

vars == <<indexVars, dbExam, now, loadVars, uiVars, timerVars, fsVars, submitVars, respVars,
          peerVars, lastToast>>

\* What the functions created in the first render see: the useState initial
\* values.  The timer effect (deps []) keeps this closure for the whole session.
FirstRender == [submissionId |-> Null, answers |-> NoAnswers, questions |-> <<>>]

\* ExamInterface is rendered by Index only in phase 'exam' (Index.tsx:58)
mounted == currentPhase = "exam" /\ pcLoad # "unmounted"

\* table exams: the rows an access code can select
ExamRows == { [startTime |-> s, endTime |-> e] : s \in StartTimes, e \in EndTimes }

Init ==
  /\ currentPhase = "access"
  /\ dbExam \in ExamRows
  /\ exam = NoRow
  /\ student = FALSE
  /\ now = 0
  /\ pcLoad = "unmounted"
  /\ pcCreate = "idle"
  /\ questions = <<>>
  /\ currentQuestionIndex = 0
  /\ answers = NoAnswers
  /\ timeRemaining = 0
  /\ timerRunning = FALSE
  /\ isFullscreen = FALSE
  /\ isFullscreenRef = FALSE
  /\ pendingAutoSubmit = FALSE
  /\ questionStartTime = 0
  /\ submissionId = Null
  /\ fsClosure = FirstRender
  /\ fullscreenElement = FALSE
  /\ fsRequest = "none"
  /\ fsEvents = 0
  /\ listenersRegistered = FALSE
  /\ hidden = FALSE
  /\ timeouts = 0
  /\ inflight = {}
  /\ subs = <<>>
  /\ dbSubmission = NoRow
  /\ submissionRows = 0
  /\ peer = "idle"
  /\ peerRow = FALSE
  /\ dbResponses = {}
  /\ lastToast = NoToast
  /\ rowReplaced = FALSE
  /\ upsertErrors = 0
  /\ savesIssued = 0
  /\ expirySignals = 0
  /\ violationsRaised = 0
  /\ submittedWrites = 0
  /\ exitsBeforeId = 0

\* ------------------------------------------------------------ wall clock
AdvanceClock ==
  /\ now < MaxNow
  /\ now' = now + 1
  /\ UNCHANGED <<indexVars, loadVars, uiVars, timerVars, fsVars, submitVars, respVars, lastToast, peerVars, dbExam>>

\* ----------------------------------------------------------------- Index
\* an onSuccess of AccessCodeEntry that arrives in whatever phase Index is
handleAccessCodeSuccessLate ==
  /\ exam' = dbExam
  /\ currentPhase' = "registration"
  /\ UNCHANGED <<student, now, loadVars, uiVars, timerVars, fsVars, submitVars, respVars, lastToast, peerVars, dbExam>>

handleAccessCodeSuccess ==
  /\ currentPhase = "access"
  /\ exam' = dbExam
  /\ currentPhase' = "registration"
  /\ UNCHANGED <<student, now, loadVars, uiVars, timerVars, fsVars, submitVars, respVars, lastToast, peerVars, dbExam>>

\* StudentRegistration.handleSubmit: the select on submissions for this
\* student and exam returns a row
existingSubmission == submissionRows > 0 \/ peerRow

\* StudentRegistration.handleSubmit passes its existing-submission check and
\* calls onSuccess, which is Index.handleStudentRegistration
handleStudentRegistration ==
  /\ currentPhase = "registration"
  /\ exam # NoRow
  /\ ~existingSubmission
  /\ student' = TRUE
  /\ currentPhase' = "exam"
  /\ UNCHANGED <<exam, now, loadVars, uiVars, timerVars, fsVars, submitVars, respVars, lastToast, peerVars, dbExam>>


\* ------------------------------------------------------------ submitExam
\* lines 523-533: the score, from the answers and questions the caller's
\* closure holds; the comparison is ===, on the strings as stored
totalScoreOf(ans, qs) ==
  Cardinality({ q \in QuestionIds :
                  /\ ans[q] # NoRow
                  /\ ans[q].selectedAnswer # NoSelection
                  /\ ans[q].status = "answered"
                  /\ q \in DOMAIN qs
                  /\ ans[q].selectedAnswer = qs[q] })

\* line 536: questions.filter(q => !answers.has(q.id)), in question order
unansweredQuestions(ans, qs) ==
  SelectSeq([i \in 1..Len(qs) |-> i], LAMBDA q : ans[q] = NoRow)

\* line 560: Math.floor((currentTime - examStartTime) / (1000 * 60)), seconds here
timeTakenMinutesAt(t, ex) == (t - ex.startTime) \div 60

\* lines 557-570: what the invocation sends with the submissions update; the
\* two new Date() calls run in the same synchronous stretch
toUpdate(inv) ==
  [inv EXCEPT !.pc = "update",
              !.timeTakenMinutes = timeTakenMinutesAt(now, exam),
              !.submittedAt = now]

\* The invocation as it stands at its first await.  storeAtStart and
\* sweepErrors are history: the Answer Store (the component's current answers)
\* when the call was made, and the sweep upserts that returned an error.
newInvocation(c, autoSubmit) ==
  LET todo == unansweredQuestions(c.answers, c.questions)
      inv == [autoSubmit |-> autoSubmit,
              totalScore |-> totalScoreOf(c.answers, c.questions),
              swept |-> todo,
              todo |-> todo,
              pc |-> "sweep",
              timeTakenMinutes |-> 0,
              submittedAt |-> NotSubmitted,
              submissionId |-> c.submissionId,
              sweepErrors |-> 0,
              storeAtStart |-> answers]
  IN IF todo = <<>> THEN toUpdate(inv) ELSE inv

\* lines 515-519: the guard on the closure's submissionId, then the call runs
\* up to its first await
submitExam(c, autoSubmit) ==
  IF c.submissionId = Null
  THEN UNCHANGED subs
  ELSE /\ Len(subs) < MaxSubmits
       /\ subs' = Append(subs, newInvocation(c, autoSubmit))

\* what the functions of the current render see
CurrentRender == [submissionId |-> submissionId, answers |-> answers, questions |-> questions]

\* ------------------------------------------------- mount, fetchQuestions
\* line 230
remainingSecondsAt(t, ex) == Max(0, ex.endTime - t)

\* First render of ExamInterface and its commit: the useState initialisers
\* run (line 219: Date.now()) and the Loading screen is shown; the mount
\* effects have not run yet.
Mount ==
  /\ currentPhase = "exam"
  /\ pcLoad = "unmounted"
  /\ pcLoad' = "rendered"
  /\ questionStartTime' = now
  /\ UNCHANGED <<indexVars, now, pcCreate, questions, submissionId, fsClosure,
                 currentQuestionIndex, answers, savesIssued, timerVars, fsVars,
                 submitVars, respVars, lastToast, peerVars, dbExam>>

\* Mount effects whose fetchQuestions goes on to the select after onComplete()
MountEffectsNoReturn ==
  /\ currentPhase = "exam"
  /\ pcLoad = "rendered"
  /\ \E requestFullscreen \in BOOLEAN :
       fsRequest' = IF requestFullscreen THEN "pending" ELSE "none"
  /\ timerRunning' = TRUE
  /\ timeRemaining' = remainingSecondsAt(now, exam)
  /\ pcLoad' = "fetching"
  /\ IF remainingSecondsAt(now, exam) <= 0
     THEN /\ lastToast' = "Exam Ended"
          /\ currentPhase' = "completed"
     ELSE UNCHANGED <<currentPhase, lastToast>>
  /\ UNCHANGED <<exam, student, now, pcCreate, questions, submissionId, fsClosure,
                 uiVars, expirySignals,
                 isFullscreen, isFullscreenRef, pendingAutoSubmit, fullscreenElement,
                 fsEvents, listenersRegistered, violationsRaised, exitsBeforeId,
                 submitVars, respVars, hidden, peerVars, dbExam>>

\* The passive effects of the mount, run by React after the first commit: the
\* synchronous head of fetchQuestions (lines 227-248, with its own new
\* Date()), enterFullscreen (line 288) and the setInterval of the timer
\* effect (line 330).  enterFullscreen calls requestFullscreen() only on an
\* engine that has it (line 345); on one without, no request is ever made.
\* The other effects return at once: no questions, no submissionId.
MountEffects ==
  /\ currentPhase = "exam"
  /\ pcLoad = "rendered"
  /\ \E requestFullscreen \in BOOLEAN :
       fsRequest' = IF requestFullscreen THEN "pending" ELSE "none"
  /\ timerRunning' = TRUE
  /\ IF remainingSecondsAt(now, exam) <= 0
     THEN /\ lastToast' = "Exam Ended"
          /\ currentPhase' = "completed"          \* onComplete()
          /\ pcLoad' = "ended"
          /\ UNCHANGED timeRemaining
     ELSE /\ timeRemaining' = remainingSecondsAt(now, exam)
          /\ pcLoad' = "fetching"
          /\ UNCHANGED <<currentPhase, lastToast>>
  /\ UNCHANGED <<exam, student, now, pcCreate, questions, submissionId, fsClosure,
                 uiVars, expirySignals,
                 isFullscreen, isFullscreenRef, pendingAutoSubmit, fullscreenElement,
                 fsEvents, listenersRegistered, violationsRaised, exitsBeforeId,
                 submitVars, respVars, hidden, peerVars, dbExam>>

\* lines 244-284: the select on questions returns rows, no rows, or an error.
\* With rows, setQuestions re-renders; the createSubmission effect of that
\* render has not run yet.
QuestionsResult ==
  /\ pcLoad = "fetching"
  /\ \/ \E bank \in QuestionBanks :
          /\ questions' = bank
          /\ pcLoad' = "loaded"
          /\ UNCHANGED lastToast
     \/ /\ pcLoad' = "empty"
        /\ lastToast' = "No Questions Found"
        /\ UNCHANGED questions
     \/ /\ pcLoad' = "error"
        /\ lastToast' = "Error"
        /\ UNCHANGED questions
  /\ UNCHANGED <<indexVars, now, pcCreate, submissionId, fsClosure, uiVars, timerVars, fsVars,
                 submitVars, respVars, peerVars, dbExam>>

\* lines 292-326: the createSubmission effect, run by React after the commit
\* in which questions.length changed, issues the insert into submissions
createSubmission ==
  /\ mounted
  /\ pcLoad = "loaded"
  /\ pcCreate = "idle"
  /\ pcCreate' = "inserting"
  /\ UNCHANGED <<indexVars, now, pcLoad, questions, submissionId, fsClosure, uiVars,
                 timerVars, fsVars, submitVars, respVars, lastToast, peerVars, dbExam>>

\* A createSubmission effect that runs again after its insert has succeeded
CreateSubmissionResultRerun ==
  /\ pcCreate = "inserting"
  /\ submissionRows < 2
  /\ \/ /\ pcCreate' = "inserting"
        /\ dbSubmission' = [total_questions |-> Len(questions), total_score |-> 0,
                            time_taken_minutes |-> 0, submitted_at |-> NotSubmitted]
        /\ submissionRows' = submissionRows + 1
        /\ submissionId' = "sub-1"
        /\ fsClosure' = [submissionId |-> "sub-1", answers |-> answers, questions |-> questions]
        /\ UNCHANGED lastToast
     \/ /\ pcCreate' = "failed"
        /\ lastToast' = "Error"
        /\ UNCHANGED <<dbSubmission, submissionRows, submissionId, fsClosure>>
  /\ UNCHANGED <<indexVars, now, pcLoad, questions, uiVars, timerVars, fsVars,
                 timeouts, subs, submittedWrites, respVars, peerVars, dbExam>>

\* lines 297-322: the insert into submissions succeeds or fails.  On success
\* setSubmissionId re-renders: handleFullscreenChange is re-created (deps
\* [toast, submissionId]) with the functions of this render; the effects of
\* that render (lines 388-404 and 406-411) have not run yet.
CreateSubmissionResult ==
  /\ pcCreate = "inserting"
  /\ \/ /\ pcCreate' = "created"
        /\ dbSubmission' = [total_questions |-> Len(questions), total_score |-> 0,
                            time_taken_minutes |-> 0, submitted_at |-> NotSubmitted]
        /\ submissionRows' = submissionRows + 1
        /\ submissionId' = "sub-1"
        /\ fsClosure' = [submissionId |-> "sub-1", answers |-> answers, questions |-> questions]
        /\ UNCHANGED lastToast
     \/ /\ pcCreate' = "failed"
        /\ lastToast' = "Error"
        /\ UNCHANGED <<dbSubmission, submissionRows, submissionId, fsClosure>>
  /\ UNCHANGED <<indexVars, now, pcLoad, questions, uiVars, timerVars, fsVars,
                 timeouts, subs, submittedWrites, respVars, peerVars, dbExam>>

\* the effects of the render in which submissionId was set are still to run
idEffectsPending == mounted /\ submissionId # Null /\ ~listenersRegistered

\* lines 388-404 and 406-411, run by React after the commit in which
\* submissionId was set: the listeners are added to document, and a violation
\* recorded as pending gets its submit scheduled
SubmissionIdEffects ==
  /\ idEffectsPending
  /\ listenersRegistered' = TRUE
  /\ IF pendingAutoSubmit
     THEN /\ timeouts' = timeouts + 1
          /\ pendingAutoSubmit' = FALSE
     ELSE UNCHANGED <<timeouts, pendingAutoSubmit>>
  /\ UNCHANGED <<indexVars, now, loadVars, uiVars, timerVars, isFullscreen, isFullscreenRef,
                 fullscreenElement, fsRequest, fsEvents, violationsRaised, exitsBeforeId, hidden,
                 subs, dbSubmission, submittedWrites, submissionRows, respVars, lastToast,
                 peerVars, dbExam>>

\* the cleanups of the effects of an unmounted ExamInterface are still to run
cleanupPending == ~mounted /\ (listenersRegistered \/ timerRunning)

\* lines 340 and 396-403, run by React after the commit that unmounted
\* ExamInterface: clearInterval and the removeEventListener calls
UnmountCleanup ==
  /\ cleanupPending
  /\ listenersRegistered' = FALSE
  /\ timerRunning' = FALSE
  /\ UNCHANGED <<indexVars, now, loadVars, uiVars, timeRemaining, expirySignals, isFullscreen,
                 isFullscreenRef, pendingAutoSubmit, fullscreenElement, fsRequest, fsEvents,
                 violationsRaised, exitsBeforeId, hidden, submitVars, respVars, lastToast,
                 peerVars, dbExam>>

\* ------------------------------------------------------- second browser
\* The same student takes the same exam in a second browser.  That page runs
\* the same code on its own state; of its session the model keeps the steps
\* up to the insert of its submissions row.

\* The second browser has entered the access code, and the handleSubmit of its
\* StudentRegistration makes the existing-submission check
PeerHandleSubmit ==
  /\ peer = "idle"
  /\ peer' = IF existingSubmission THEN "blocked" ELSE "started"
  /\ UNCHANGED <<indexVars, now, loadVars, uiVars, timerVars, fsVars, submitVars,
                 respVars, peerRow, lastToast, dbExam>>

\* lines 227-248 in the second browser: the head of its fetchQuestions
PeerMount ==
  /\ peer = "started"
  /\ peer' = IF remainingSecondsAt(now, dbExam) <= 0 THEN "ended" ELSE "fetching"
  /\ UNCHANGED <<indexVars, now, loadVars, uiVars, timerVars, fsVars, submitVars,
                 respVars, peerRow, lastToast, dbExam>>

\* lines 244-284 in the second browser: its select on questions returns
\* rows, no rows, or an error
PeerQuestionsResult ==
  /\ peer = "fetching"
  /\ peer' \in {"loaded", "empty", "error"}
  /\ UNCHANGED <<indexVars, now, loadVars, uiVars, timerVars, fsVars, submitVars,
                 respVars, peerRow, lastToast, dbExam>>

\* lines 292-307 in the second browser: its createSubmission effect issues
\* the insert
PeerCreateSubmission ==
  /\ peer = "loaded"
  /\ peer' = "inserting"
  /\ UNCHANGED <<indexVars, now, loadVars, uiVars, timerVars, fsVars, submitVars,
                 respVars, peerRow, lastToast, dbExam>>

\* lines 297-322 in the second browser: its insert succeeds or fails
PeerCreateSubmissionResult ==
  /\ peer = "inserting"
  /\ \/ peer' = "created" /\ peerRow' = TRUE
     \/ peer' = "failed" /\ UNCHANGED peerRow
  /\ UNCHANGED <<indexVars, now, loadVars, uiVars, timerVars, fsVars, submitVars,
                 respVars, lastToast, dbExam>>

\* ----------------------------------------------------------------- timer
\* a countdown without the floor at zero
timerUpdaterNoFloor(prev) == prev - 1

\* lines 331-337: the updater passed to setTimeRemaining
timerUpdater(prev) == IF prev <= 1 THEN 0 ELSE prev - 1

\* lines 330-338: one firing of the interval.  Its submitExam is the one of
\* the first render.  Between the unmount and clearInterval the updater still
\* runs on the last rendered value, and its result is dropped.
TimerTick ==
  /\ timerRunning
  /\ timeRemaining' = IF mounted THEN timerUpdater(timeRemaining) ELSE timeRemaining
  /\ IF timeRemaining <= 1
     THEN /\ expirySignals < MaxExpiry
          /\ expirySignals' = expirySignals + 1
          /\ submitExam(FirstRender, TRUE)
     ELSE UNCHANGED <<expirySignals, subs>>
  /\ UNCHANGED <<indexVars, now, loadVars, uiVars, timerRunning, fsVars, timeouts, dbSubmission, submissionRows,
                 submittedWrites, respVars, lastToast, peerVars, dbExam>>


\* ------------------------------------------------------------ full screen
\* lines 344-354: the requestFullscreen promise settles.  The browser fires
\* the entering fullscreenchange before it resolves the promise; no listener
\* acts on an entering event (line 363), so it is not queued.
RequestFullscreenSettles ==
  /\ fsRequest = "pending"
  /\ \/ /\ fsRequest' = "granted"
        /\ fullscreenElement' = TRUE
        /\ isFullscreen' = IF mounted THEN TRUE ELSE isFullscreen
        /\ lastToast' = "Exam Started"
     \/ /\ fsRequest' = "denied"
        /\ UNCHANGED <<fullscreenElement, isFullscreen, lastToast>>
  /\ UNCHANGED <<indexVars, now, loadVars, uiVars, timerVars, isFullscreenRef,
                 pendingAutoSubmit, fsEvents, listenersRegistered, violationsRaised, exitsBeforeId,
                 submitVars, respVars, hidden, peerVars, dbExam>>

\* lines 413-415: the effect that copies isFullscreen into the ref
SyncFullscreenRef ==
  /\ mounted
  /\ isFullscreenRef # isFullscreen
  /\ isFullscreenRef' = isFullscreen
  /\ UNCHANGED <<indexVars, now, loadVars, uiVars, timerVars, isFullscreen,
                 pendingAutoSubmit, fullscreenElement, fsRequest, fsEvents, listenersRegistered,
                 violationsRaised, exitsBeforeId, submitVars, respVars, lastToast, hidden, peerVars, dbExam>>

\* The browser fires fullscreenchange, and on some engines the prefixed
\* event as well; both are listened to (lines 391-394).
EventsPerChange == {1, 2}

\* The student leaves full screen (Esc).
UserExitsFullscreen ==
  /\ fullscreenElement
  /\ fullscreenElement' = FALSE
  /\ \E n \in EventsPerChange : fsEvents' = fsEvents + n
  /\ UNCHANGED <<indexVars, now, loadVars, uiVars, timerVars, isFullscreen,
                 isFullscreenRef, pendingAutoSubmit, fsRequest, listenersRegistered,
                 violationsRaised, exitsBeforeId, submitVars, respVars, lastToast, hidden,
                 peerVars, dbExam>>

\* lines 356-376: handleFullscreenChange, with the closure it was created in;
\* setIsFullscreen changes nothing once ExamInterface is unmounted
handleFullscreenChange ==
  IF ~fullscreenElement /\ isFullscreenRef
  THEN /\ isFullscreen' = (IF mounted THEN FALSE ELSE isFullscreen)
       /\ lastToast' = "Fullscreen Exit Detected"
       /\ violationsRaised' = violationsRaised + 1
       /\ IF fsClosure.submissionId # Null
          THEN /\ timeouts' = timeouts + 1
               /\ UNCHANGED pendingAutoSubmit
          ELSE /\ pendingAutoSubmit' = TRUE
               /\ UNCHANGED timeouts
  ELSE UNCHANGED <<isFullscreen, violationsRaised, timeouts, pendingAutoSubmit, lastToast>>

\* The browser dispatches one queued event to the listeners registered at
\* that moment (lines 388-404).
DispatchFullscreenChange ==
  /\ fsEvents > 0
  /\ fsEvents' = fsEvents - 1
  /\ IF listenersRegistered
     THEN /\ handleFullscreenChange
          /\ UNCHANGED exitsBeforeId
     ELSE /\ exitsBeforeId' = IF mounted /\ submissionId = Null /\ ~fullscreenElement
                                 /\ isFullscreenRef
                              THEN exitsBeforeId + 1 ELSE exitsBeforeId
          /\ UNCHANGED <<isFullscreen, violationsRaised, timeouts, pendingAutoSubmit,
                         lastToast>>
  /\ UNCHANGED <<indexVars, now, loadVars, uiVars, timerVars, isFullscreenRef,
                 fullscreenElement, fsRequest, listenersRegistered, subs, dbSubmission,
                 submissionRows, submittedWrites, respVars, hidden, peerVars, dbExam>>

\* a visibility handler that treats a hidden page as a violation
handleVisibilityChangeAsViolation ==
  IF hidden'
  THEN /\ lastToast' = "Tab Switch Detected"
       /\ IF fsClosure.submissionId # Null
          THEN /\ timeouts' = timeouts + 1
               /\ UNCHANGED pendingAutoSubmit
          ELSE /\ pendingAutoSubmit' = TRUE
               /\ UNCHANGED timeouts
  ELSE UNCHANGED <<lastToast, timeouts, pendingAutoSubmit>>

\* lines 378-386: handleVisibilityChange, run after document.hidden changed
handleVisibilityChange ==
  /\ lastToast' = IF hidden' THEN "Tab Switch Detected" ELSE lastToast
  /\ UNCHANGED <<timeouts, pendingAutoSubmit>>

\* The page is hidden or shown again (another window or tab in front) and
\* the browser dispatches visibilitychange to the listener registered at
\* that moment (line 395).
VisibilityChange ==
  /\ hidden' = ~hidden
  /\ IF listenersRegistered
     THEN handleVisibilityChange
     ELSE UNCHANGED <<lastToast, timeouts, pendingAutoSubmit>>
  /\ UNCHANGED <<indexVars, now, loadVars, uiVars, timerVars, isFullscreen,
                 isFullscreenRef, fullscreenElement, fsRequest, fsEvents, listenersRegistered,
                 violationsRaised, exitsBeforeId, subs, dbSubmission, submissionRows, submittedWrites,
                 respVars, peerVars, dbExam>>

\* lines 371 and 408: a scheduled submitExam(true) fires, mounted or not
TimeoutFires ==
  /\ timeouts > 0
  /\ timeouts' = timeouts - 1
  /\ submitExam(fsClosure, TRUE)
  /\ UNCHANGED <<indexVars, now, loadVars, uiVars, timerVars, fsVars, dbSubmission, submissionRows,
                 submittedWrites, respVars, lastToast, peerVars, dbExam>>

\* line 643: the Submit Exam button, rendered once questions are loaded
ManualSubmit ==
  /\ mounted
  /\ questions # <<>>
  /\ submitExam(CurrentRender, FALSE)
  /\ UNCHANGED <<indexVars, now, loadVars, uiVars, timerVars, fsVars, timeouts,
                 dbSubmission, submissionRows, submittedWrites, respVars, lastToast, peerVars, dbExam>>


\* ---------------------------------------------------------------- answers
\* lines 448-461: the row saveAnswer sends to table responses
responseRow(q, selectedAnswer, timeSpent) ==
  LET correctAnswerLower == toLowerCase(questions[q])
      selectedAnswerLower == IF selectedAnswer # NoSelection
                             THEN toLowerCase(selectedAnswer) ELSE "n"
      isCorrect == IF selectedAnswerLower # "n"
                   THEN selectedAnswerLower = correctAnswerLower ELSE FALSE
  IN [submission_id |-> submissionId,
      question_id |-> q,
      selected_answer |-> selectedAnswerLower,
      correct_answer |-> correctAnswerLower,
      is_correct |-> isCorrect,
      time_taken_seconds |-> timeSpent]

\* lines 423-475: the AnswerRecord is stored; then, without a submissionId,
\* the toast of lines 435-443, else the upsert is issued and awaited
saveAnswer(q, selectedAnswer, status) ==
  LET timeSpent == now - questionStartTime
  IN /\ savesIssued < MaxSaves
     /\ savesIssued' = savesIssued + 1
     /\ answers' = [answers EXCEPT ![q] = [selectedAnswer |-> selectedAnswer,
                                           status |-> status,
                                           timeSpent |-> timeSpent]]
     /\ IF submissionId = Null
        THEN /\ lastToast' = "Submission Error"
             /\ UNCHANGED inflight
        ELSE /\ inflight' = inflight \cup
                  {[seq |-> savesIssued + 1, question_id |-> q,
                    row |-> responseRow(q, selectedAnswer, timeSpent)]}
             /\ UNCHANGED lastToast

\* questions[currentQuestionIndex].id
currentQuestionId == currentQuestionIndex + 1

\* a click on an option that goes to saveAnswer whether or not the
\* submission exists
handleAnswerSelectUnguarded ==
  /\ mounted
  /\ questions # <<>>
  /\ \E option \in Options : saveAnswer(currentQuestionId, option, "answered")
  /\ UNCHANGED <<indexVars, now, loadVars, currentQuestionIndex, questionStartTime,
                 timerVars, fsVars, submitVars, dbResponses, rowReplaced, upsertErrors, peerVars, dbExam>>

\* a click on an option stored with the status of an untouched question
handleAnswerSelectNotAnswered ==
  /\ mounted
  /\ questions # <<>>
  /\ IF submissionId = Null
     THEN /\ lastToast' = "Submission Error"
          /\ UNCHANGED <<answers, savesIssued, inflight>>
     ELSE \E option \in Options : saveAnswer(currentQuestionId, option, "not-answered")
  /\ UNCHANGED <<indexVars, now, loadVars, currentQuestionIndex, questionStartTime,
                 timerVars, fsVars, submitVars, dbResponses, rowReplaced, upsertErrors, peerVars, dbExam>>

\* lines 477-489: a click on an option
handleAnswerSelect ==
  /\ mounted
  /\ questions # <<>>
  /\ IF submissionId = Null
     THEN /\ lastToast' = "Submission Error"
          /\ UNCHANGED <<answers, savesIssued, inflight>>
     ELSE \E option \in Options : saveAnswer(currentQuestionId, option, "answered")
  /\ UNCHANGED <<indexVars, now, loadVars, currentQuestionIndex, questionStartTime,
                 timerVars, fsVars, submitVars, dbResponses, rowReplaced, upsertErrors, peerVars, dbExam>>

\* Mark for Review that passes no selection to saveAnswer
markForReviewNoSelection ==
  /\ mounted
  /\ questions # <<>>
  /\ IF submissionId = Null
     THEN /\ lastToast' = "Submission Error"
          /\ UNCHANGED <<answers, savesIssued, inflight>>
     ELSE saveAnswer(currentQuestionId, NoSelection, "marked-for-review")
  /\ UNCHANGED <<indexVars, now, loadVars, currentQuestionIndex, questionStartTime,
                 timerVars, fsVars, submitVars, dbResponses, rowReplaced, upsertErrors, peerVars, dbExam>>

\* lines 491-508: Mark for Review
markForReview ==
  /\ mounted
  /\ questions # <<>>
  /\ IF submissionId = Null
     THEN /\ lastToast' = "Submission Error"
          /\ UNCHANGED <<answers, savesIssued, inflight>>
     ELSE LET currentAnswer == answers[currentQuestionId]
          IN saveAnswer(currentQuestionId,
                        IF currentAnswer # NoRow THEN currentAnswer.selectedAnswer
                                                 ELSE NoSelection,
                        "marked-for-review")
  /\ UNCHANGED <<indexVars, now, loadVars, currentQuestionIndex, questionStartTime,
                 timerVars, fsVars, submitVars, dbResponses, rowReplaced, upsertErrors, peerVars, dbExam>>

\* Previous and Next that are never disabled
navigateTargetsUnguarded ==
  {currentQuestionIndex - 1, currentQuestionIndex + 1} \cup (0..(Len(questions) - 1))

\* The indexes the rendered controls can pass: Previous (disabled at 0), Next
\* (disabled at the last question), and the grid buttons (lines 713-728, 771-792)
navigateTargets ==
  {i \in {currentQuestionIndex - 1, currentQuestionIndex + 1} : i >= 0 /\ i <= Len(questions) - 1}
    \cup (0..(Len(questions) - 1))

\* lines 510-513
navigateToQuestion ==
  /\ mounted
  /\ questions # <<>>
  /\ \E index \in navigateTargets : currentQuestionIndex' = index
  /\ questionStartTime' = now
  /\ UNCHANGED <<indexVars, now, loadVars, answers, savesIssued, timerVars, fsVars,
                 submitVars, respVars, lastToast, peerVars, dbExam>>

\* the rows of a table that have the key of row r
sameKey(table, r) ==
  { x \in table : x.submission_id = r.submission_id /\ x.question_id = r.question_id }

\* a plain insert: the row is added whatever the table holds
insert(table, r) == table \cup {r}

\* lines 453-464 and 540-551: .upsert(row, { onConflict: 'submission_id,question_id' })
upsert(table, r) == (table \ sameKey(table, r)) \cup {r}

\* lines 453-473: an upsert of saveAnswer completes, with or without error
UpsertCompletes ==
  /\ \E m \in inflight :
       /\ inflight' = inflight \ {m}
       /\ \/ /\ dbResponses' = upsert(dbResponses, m.row)
             /\ rowReplaced' = (rowReplaced \/ sameKey(dbResponses, m.row) # {})
             /\ UNCHANGED upsertErrors
          \/ /\ upsertErrors' = upsertErrors + 1
             /\ UNCHANGED <<dbResponses, rowReplaced>>
  /\ UNCHANGED <<indexVars, now, loadVars, uiVars, timerVars, fsVars, submitVars, lastToast, peerVars, dbExam>>

\* lines 608-614: the counts shown in the status panel
getStatusCounts ==
  LET answered == Cardinality({ q \in QuestionIds :
                     answers[q] # NoRow /\ answers[q].status = "answered" })
      markedForReview == Cardinality({ q \in QuestionIds :
                     answers[q] # NoRow /\ answers[q].status = "marked-for-review" })
  IN [answered |-> answered,
      markedForReview |-> markedForReview,
      notAnswered |-> Len(questions) - answered - markedForReview]

\* ------------------------------------------------- submitExam, continued
\* A sweep whose failed upsert ends the submitExam call
SweepStepAborting ==
  \E i \in 1..Len(subs) :
    /\ subs[i].pc = "sweep"
    /\ LET q == Head(subs[i].todo)
           row == [submission_id |-> subs[i].submissionId,
                   question_id |-> q,
                   selected_answer |-> "n",
                   correct_answer |-> toLowerCase(questions[q]),
                   is_correct |-> FALSE,
                   time_taken_seconds |-> 0]
           rest == [subs[i] EXCEPT !.todo = Tail(subs[i].todo)]
       IN \/ /\ dbResponses' = upsert(dbResponses, row)
             /\ rowReplaced' = (rowReplaced \/ sameKey(dbResponses, row) # {})
             /\ subs' = [subs EXCEPT ![i] = IF rest.todo = <<>> THEN toUpdate(rest)
                                                                ELSE rest]
          \/ /\ subs' = [subs EXCEPT ![i].pc = "failed", ![i].sweepErrors = @ + 1]
             /\ UNCHANGED <<dbResponses, rowReplaced>>
    /\ UNCHANGED <<indexVars, now, loadVars, uiVars, timerVars, fsVars, timeouts,
                   dbSubmission, submissionRows, submittedWrites, inflight, upsertErrors, lastToast, peerVars, dbExam>>

\* lines 537-555: one upsert of the sweep completes, with or without error,
\* and the loop goes on to the next question or to the update
SweepStep ==
  \E i \in 1..Len(subs) :
    /\ subs[i].pc = "sweep"
    /\ LET q == Head(subs[i].todo)
           row == [submission_id |-> subs[i].submissionId,
                   question_id |-> q,
                   selected_answer |-> "n",
                   correct_answer |-> toLowerCase(questions[q]),
                   is_correct |-> FALSE,
                   time_taken_seconds |-> 0]
       IN \E error \in BOOLEAN :
            LET rest == [subs[i] EXCEPT !.todo = Tail(subs[i].todo),
                                        !.sweepErrors = IF error THEN @ + 1 ELSE @]
            IN /\ IF error
                  THEN UNCHANGED <<dbResponses, rowReplaced>>
                  ELSE /\ dbResponses' = upsert(dbResponses, row)
                       /\ rowReplaced' = (rowReplaced \/ sameKey(dbResponses, row) # {})
               /\ subs' = [subs EXCEPT ![i] = IF rest.todo = <<>> THEN toUpdate(rest)
                                                                  ELSE rest]
    /\ UNCHANGED <<indexVars, now, loadVars, uiVars, timerVars, fsVars, timeouts,
                   dbSubmission, submissionRows, submittedWrites, inflight, upsertErrors, lastToast, peerVars, dbExam>>

\* React runs the passive effects still pending before it commits the
\* unmount of ExamInterface: the listener and pending-submit effects of lines
\* 388-411 and the ref sync of lines 413-415
flushBeforeUnmount ==
  /\ listenersRegistered' = (listenersRegistered \/ idEffectsPending)
  /\ isFullscreenRef' = (IF mounted THEN isFullscreen ELSE isFullscreenRef)
  /\ IF idEffectsPending /\ pendingAutoSubmit
     THEN /\ timeouts' = timeouts + 1
          /\ pendingAutoSubmit' = FALSE
     ELSE UNCHANGED <<timeouts, pendingAutoSubmit>>

\* An update step whose error path ends the session as the success path does
UpdateStepCompletesOnError ==
  \E i \in 1..Len(subs) :
    /\ subs[i].pc = "update"
    /\ \/ /\ dbSubmission' = [dbSubmission EXCEPT
                                !.total_score = subs[i].totalScore,
                                !.time_taken_minutes = subs[i].timeTakenMinutes,
                                !.submitted_at = subs[i].submittedAt]
          /\ submittedWrites' = submittedWrites + 1
          /\ UNCHANGED submissionRows
          /\ subs' = [subs EXCEPT ![i].pc = "done"]
          /\ lastToast' = IF subs[i].autoSubmit THEN "Exam Auto-Submitted"
                                                ELSE "Exam Submitted"
       \/ /\ subs' = [subs EXCEPT ![i].pc = "failed"]
          /\ lastToast' = "Submission Error"
          /\ UNCHANGED <<dbSubmission, submissionRows, submittedWrites>>
    /\ IF fullscreenElement
       THEN /\ fullscreenElement' = FALSE
            /\ \E n \in EventsPerChange : fsEvents' = fsEvents + n
       ELSE UNCHANGED <<fullscreenElement, fsEvents>>
    /\ currentPhase' = "completed"
    /\ flushBeforeUnmount
    /\ UNCHANGED <<exam, student, now, loadVars, uiVars, timerVars, isFullscreen,
                   fsRequest, violationsRaised,
                   exitsBeforeId, respVars, hidden, peerVars, dbExam>>

\* lines 562-601: the update of the submissions row completes.  Without
\* error: the toast, leave full screen if held, then onComplete(), which
\* unmounts ExamInterface (the cleanups of its effects run later); with error:
\* the toast of the catch block.
UpdateStep ==
  \E i \in 1..Len(subs) :
    /\ subs[i].pc = "update"
    /\ \/ /\ dbSubmission' = [dbSubmission EXCEPT
                                !.total_score = subs[i].totalScore,
                                !.time_taken_minutes = subs[i].timeTakenMinutes,
                                !.submitted_at = subs[i].submittedAt]
          /\ submittedWrites' = submittedWrites + 1
          /\ UNCHANGED submissionRows
          /\ subs' = [subs EXCEPT ![i].pc = "done"]
          /\ IF fullscreenElement
             THEN /\ fullscreenElement' = FALSE
                  /\ \E n \in EventsPerChange : fsEvents' = fsEvents + n
             ELSE UNCHANGED <<fullscreenElement, fsEvents>>
          /\ lastToast' = IF subs[i].autoSubmit THEN "Exam Auto-Submitted"
                                                ELSE "Exam Submitted"
          /\ currentPhase' = "completed"
          /\ flushBeforeUnmount
       \/ /\ subs' = [subs EXCEPT ![i].pc = "failed"]
          /\ lastToast' = "Submission Error"
          /\ UNCHANGED <<dbSubmission, submissionRows, submittedWrites, fullscreenElement, fsEvents,
                         currentPhase, listenersRegistered, isFullscreenRef, timeouts,
                         pendingAutoSubmit>>
    /\ UNCHANGED <<exam, student, now, loadVars, uiVars, timerVars, isFullscreen,
                   fsRequest, violationsRaised,
                   exitsBeforeId, respVars, hidden, peerVars, dbExam>>

\* ------------------------------------------------------- specifications
\* registration, mount, the two loads, and the effects and cleanups React
\* runs after the commits
Load ==
  \/ handleAccessCodeSuccess
  \/ handleStudentRegistration
  \/ Mount
  \/ MountEffects
  \/ QuestionsResult
  \/ createSubmission
  \/ CreateSubmissionResult
  \/ SubmissionIdEffects
  \/ UnmountCleanup

\* MountEffects on an engine that has Element.requestFullscreen
MountEffectsRequesting == MountEffects /\ fsRequest' = "pending"

\* Load on an engine that has Element.requestFullscreen.  fsRequest is read
\* only by RequestFullscreenSettles: in a specification without the steps of
\* Proctor the request stays pending, and the engine without the call adds
\* no behaviour.
LoadRequesting ==
  \/ handleAccessCodeSuccess
  \/ handleStudentRegistration
  \/ Mount
  \/ MountEffectsRequesting
  \/ QuestionsResult
  \/ createSubmission
  \/ CreateSubmissionResult
  \/ SubmissionIdEffects
  \/ UnmountCleanup

\* the browser's full-screen state and the handlers on it
Proctor ==
  \/ RequestFullscreenSettles
  \/ SyncFullscreenRef
  \/ UserExitsFullscreen
  \/ DispatchFullscreenChange
  \/ TimeoutFires

\* the student's work on the questions
Answering ==
  \/ handleAnswerSelect
  \/ markForReview
  \/ navigateToQuestion
  \/ UpsertCompletes

\* the session of the second browser
Peer ==
  \/ PeerHandleSubmit
  \/ PeerMount
  \/ PeerQuestionsResult
  \/ PeerCreateSubmission
  \/ PeerCreateSubmissionResult

\* the Submit button and the steps of the submitExam calls in progress
Finalize ==
  \/ ManualSubmit
  \/ SweepStep
  \/ UpdateStep

\* The whole program: every event the component and its environment produce.
Next ==
  \/ AdvanceClock
  \/ Load
  \/ TimerTick
  \/ Proctor
  \/ VisibilityChange
  \/ Peer
  \/ Answering
  \/ Finalize

Spec == Init /\ [][Next]_vars

\* The specifications below restrict the environment to the events one group
\* of properties is about.  Every step of each is a step of Next, so each of
\* their behaviours is a behaviour of Spec.

\* the countdown: wall clock, timer ticks, manual submit
NextTimer ==
  \/ AdvanceClock
  \/ LoadRequesting
  \/ TimerTick
  \/ Finalize

SpecTimer == Init /\ [][NextTimer]_vars

\* the three submit triggers: timer, full-screen violation, Submit button
NextTriggers ==
  \/ Load
  \/ TimerTick
  \/ Proctor
  \/ Finalize

SpecTriggers == Init /\ [][NextTriggers]_vars

\* answering and manual submit
NextAnswers ==
  \/ LoadRequesting
  \/ Answering
  \/ Finalize

SpecAnswers == Init /\ [][NextAnswers]_vars

\* answering, then a finalize started by a full-screen violation
NextViolation ==
  \/ Load
  \/ Proctor
  \/ handleAnswerSelect
  \/ UpsertCompletes
  \/ SweepStep
  \/ UpdateStep

SpecViolation == Init /\ [][NextViolation]_vars

\* page visibility next to the full-screen events and the finalize
NextVisibility ==
  \/ Load
  \/ Proctor
  \/ VisibilityChange
  \/ Finalize

SpecVisibility == Init /\ [][NextVisibility]_vars

\* two browsers of one student, up to the finalize of the first
NextPeer ==
  \/ LoadRequesting
  \/ Peer
  \/ Finalize

SpecPeer == Init /\ [][NextPeer]_vars

\* the Answer Store: loading, answering and navigation, without a finalize
NextStore ==
  \/ LoadRequesting
  \/ Answering

SpecStore == Init /\ [][NextStore]_vars
\* ------------------------------------------------------------ properties
\* what the session is told it may rely on, stated on the model

\* questions that have a row in table responses
durableQuestions == { r.question_id : r \in dbResponses }

\* the session is active: questions loaded and the submission id present
sessionActive == mounted /\ questions # <<>> /\ submissionId # Null

\* the score the Submission Finalizer is specified to commit: answered
\* records whose selection equals the correct option, ignoring case
caseInsensitiveScore(ans) ==
  Cardinality({ q \in 1..Len(questions) :
                  /\ ans[q] # NoRow
                  /\ ans[q].status = "answered"
                  /\ toLowerCase(ans[q].selectedAnswer) = toLowerCase(questions[q]) })

\* the set of elements of a sequence
Range(seq) == { seq[k] : k \in 1..Len(seq) }

\* C1: whatever the interleaving of manual, timer and violation triggers, at
\* most one finalize sequence starts in a session and submitted_at is written
\* at most once: a trigger that arrives while a finalize is suspended or after
\* completion starts nothing.
C1_SingleFinalize == Len(subs) <= 1 /\ submittedWrites <= 1

\* C2: once the submissions row has a submitted_at, no step changes its
\* total_score, time_taken_minutes or submitted_at.
C2_SubmittedImmutable ==
  [][(dbSubmission # NoRow /\ dbSubmission.submitted_at # NotSubmitted)
       => dbSubmission' = dbSubmission]_vars

\* C3: when the session has reached completed through a finalize, table
\* responses holds one row per loaded question.
C3_OneRowPerQuestion ==
  (currentPhase = "completed" /\ \E i \in 1..Len(subs) : subs[i].pc = "done")
    => Cardinality(durableQuestions) = Len(questions)

\* C4: the tick on which the countdown reaches zero while the session is
\* active and no finalize has begun starts a finalize sequence.
C4_ExpiryStartsFinalize ==
  [][(expirySignals' > expirySignals /\ sessionActive /\ subs = <<>>)
       => Len(subs') = 1]_vars

\* C5: the total_score a finalize commits is the number of answered records
\* of the Answer Store, as it was when the finalize started, whose selection
\* equals the question's correct option compared case-insensitively.
C5_ScoreOfStore ==
  \A i \in 1..Len(subs) :
    subs[i].pc = "done" => subs[i].totalScore = caseInsensitiveScore(subs[i].storeAtStart)

\* C6: the sweep of a finalize writes exactly the loaded questions that have
\* no AnswerRecord in the Answer Store when the finalize starts, so it leaves
\* the rows of answered questions alone, whichever trigger started it.
C6_SweepOnlyUnanswered ==
  \A i \in 1..Len(subs) :
    Range(subs[i].swept) = { q \in 1..Len(questions) : subs[i].storeAtStart[q] = NoRow }

\* C7: the one exit from full screen a session can see raises the violation
\* (and schedules the violation submit) once, however many change events the
\* browser delivers for it.
C7_ViolationOnce == violationsRaised <= 1

\* C8: a full-screen exit dispatched after full screen was entered and while
\* the submission id does not exist yet is recorded as pending until the id
\* arrives.
C8_EarlyExitPending ==
  (exitsBeforeId > 0 /\ submissionId = Null) => pendingAutoSubmit

\* C9: the remaining-seconds counter is never negative; once it is
\* initialised at load no step increases it, and once it is 0 it stays 0.
C9_CountdownMonotone ==
  /\ [](timeRemaining >= 0)
  /\ [][pcLoad \notin {"unmounted", "rendered"}
          => /\ timeRemaining' <= timeRemaining
             /\ (timeRemaining = 0 => timeRemaining' = 0)]_vars

\* C9: the countdown came down from a positive value to 0 and was ticked
\* again at 0
C9_Witness == mounted /\ timeRemaining = 0 /\ expirySignals >= 2

\* C10: over any run of ticks the timer calls submitExam(true) at most once.
C10_ExpiryOnce == expirySignals <= 1

\* a step of the interval callback: it lowers the counter or calls submitExam
timerTicked ==
  mounted /\ (timeRemaining' # timeRemaining \/ expirySignals' # expirySignals)

\* C11: after every tick the displayed remaining time is max(0, endTime - now)
\* in whole seconds; in particular it is never above it, however far the
\* wall clock ran between two ticks.
C11_DisplayTracksClock ==
  [][timerTicked => timeRemaining' <= remainingSecondsAt(now', exam)]_vars

\* C12: table responses holds at most one row per (submission id, question
\* id), whatever upserts of saveAnswer and of the sweep have succeeded: an
\* upsert that meets a row with its key replaces it.
C12_OneRowPerKey ==
  \A r1, r2 \in dbResponses :
    (r1.submission_id = r2.submission_id /\ r1.question_id = r2.question_id) => r1 = r2

\* C12: an upsert met a row with its key, and the table holds a selection
C12_Witness ==
  rowReplaced /\ \E r \in dbResponses : r.selected_answer # "n"

\* C13: while the submission id does not exist, a click on an option or on
\* Mark for Review raises the "Submission Error" toast, and no step changes
\* the Answer Store, the table responses or the set of upserts under way.
C13_NoIdNoWrite ==
  /\ [][(submissionId = Null /\ (handleAnswerSelect \/ markForReview))
          => lastToast' = "Submission Error"]_vars
  /\ [][submissionId = Null
          => answers' = answers /\ dbResponses' = dbResponses /\ inflight' = inflight]_vars

\* C13: the error was raised without a submission id, and both stores are empty
C13_Witness ==
  /\ mounted /\ questions # <<>> /\ submissionId = Null
  /\ lastToast = "Submission Error"
  /\ answers = NoAnswers /\ dbResponses = {} /\ inflight = {}

\* C14: a submit requested by the timer while the submission id does not
\* exist is reported to the user (the "Submission Error" toast), starts no
\* finalize and writes nothing to the durable store.
C14_EarlySubmitReported ==
  [][(mounted /\ submissionId = Null /\ expirySignals' > expirySignals)
       => /\ lastToast' = "Submission Error"
          /\ subs' = subs
          /\ dbSubmission' = dbSubmission
          /\ dbResponses' = dbResponses]_vars

\* the selection of a question's AnswerRecord, '' when it has none
selectionOf(ans, q) == IF ans[q] = NoRow THEN NoSelection ELSE ans[q].selectedAnswer

\* C15: Mark for Review on the current question sets its status to
\* marked-for-review and keeps the option it had selected ('' when it had
\* none); the record of no other question changes.
C15_MarkKeepsSelection ==
  [][(submissionId # Null /\ markForReview)
       => /\ answers'[currentQuestionId] # NoRow
          /\ answers'[currentQuestionId].status = "marked-for-review"
          /\ answers'[currentQuestionId].selectedAnswer = selectionOf(answers, currentQuestionId)
          /\ \A q \in QuestionIds \ {currentQuestionId} : answers'[q] = answers[q]]_vars

\* C15: an answered question was marked for review and still has its option
C15_Witness ==
  \E q \in QuestionIds :
    /\ answers[q] # NoRow
    /\ answers[q].status = "marked-for-review"
    /\ answers[q].selectedAnswer \in Options

\* C16: once questions are loaded, whatever Previous, Next and grid clicks
\* were made, the current question index is at least 0 and below the number
\* of loaded questions.
C16_IndexInRange ==
  questions # <<>> => (0 <= currentQuestionIndex /\ currentQuestionIndex < Len(questions))

\* C16: navigation has brought the session to the last question
C16_Witness ==
  mounted /\ Len(questions) > 1 /\ currentQuestionIndex = Len(questions) - 1

\* C17: a session that loads at or after the exam's end time goes from the
\* load straight to completed, and from then on no questions are held, no
\* submission row exists, no submitExam call has passed its guard and no
\* response has been written or is under way.
C17_EndedAtLoad ==
  /\ [][(pcLoad = "rendered" /\ pcLoad' # "rendered" /\ exam.endTime <= now)
          => (currentPhase' = "completed" /\ pcLoad' = "ended")]_vars
  /\ [](pcLoad = "ended"
          => /\ currentPhase = "completed"
             /\ questions = <<>> /\ pcCreate = "idle" /\ submissionId = Null
             /\ dbSubmission = NoRow /\ subs = <<>>
             /\ dbResponses = {} /\ inflight = {})

\* C17: the load found the exam over, at a clock value past its start
C17_Witness ==
  pcLoad = "ended" /\ lastToast = "Exam Ended" /\ now >= exam.endTime /\ now > 0

\* C18: when the question source returns no questions the session is handed
\* back as completed, without questions and without a submission.
C18_NoQuestionsHandsBack ==
  pcLoad = "empty"
    => /\ currentPhase = "completed"
       /\ questions = <<>> /\ submissionId = Null /\ dbSubmission = NoRow

\* some submitExam call has ended in its catch block
finalizeFailed == \E i \in 1..Len(subs) : subs[i].pc = "failed"

\* C19: when the update of the submissions row fails, the "Submission Error"
\* toast is raised, the session stays in phase exam and the row is not
\* written; and as long as the component is mounted after such a failure, the
\* Submit button starts a new finalize.
C19_UpdateFailureRetry ==
  /\ [][(\E i \in 1..Len(subs) : subs[i].pc = "update" /\ subs'[i].pc = "failed")
          => /\ lastToast' = "Submission Error"
             /\ currentPhase' = currentPhase
             /\ dbSubmission' = dbSubmission]_vars
  /\ []((mounted /\ finalizeFailed /\ Len(subs) < MaxSubmits)
          => ENABLED (ManualSubmit /\ Len(subs') = Len(subs) + 1))

\* C19: a finalize failed at its update, a later one succeeded and the
\* session is completed
C19_Witness ==
  /\ currentPhase = "completed"
  /\ dbSubmission # NoRow /\ dbSubmission.submitted_at # NotSubmitted
  /\ \E i, j \in 1..Len(subs) : i < j /\ subs[i].pc = "failed" /\ subs[j].pc = "done"

\* C20: whether its upsert succeeds or fails, a step of the sweep moves the
\* finalize on to the next unanswered question or to the update; a finalize
\* in its sweep or at its update always has its next step ready; and the
\* update step that succeeds completes the session.
C20_SweepFailuresTolerated ==
  /\ [][\A i \in 1..Len(subs) :
          (subs[i].pc = "sweep" /\ subs'[i] # subs[i])
            => /\ subs'[i].todo = Tail(subs[i].todo)
               /\ subs'[i].pc = IF subs'[i].todo = <<>> THEN "update" ELSE "sweep"]_vars
  /\ [][(\E i \in 1..Len(subs) : subs[i].pc = "update" /\ subs'[i].pc = "done")
          => currentPhase' = "completed"]_vars
  /\ [](\A i \in 1..Len(subs) :
          /\ subs[i].pc = "sweep" => ENABLED SweepStep
          /\ subs[i].pc = "update" => ENABLED UpdateStep)

\* C20: every upsert of a sweep failed, its update succeeded and the session
\* is completed
C20_Witness ==
  /\ currentPhase = "completed"
  /\ \E i \in 1..Len(subs) :
       /\ subs[i].pc = "done"
       /\ subs[i].sweepErrors > 0
       /\ subs[i].sweepErrors = Len(subs[i].swept)
\* questions whose AnswerRecord has no row in table responses and no upsert
\* under way: every upsert issued for them has failed
lostUpserts ==
  { q \in QuestionIds :
      /\ answers[q] # NoRow
      /\ \A m \in inflight : m.question_id # q
      /\ q \notin durableQuestions }

\* C21: an upsert that fails changes neither the Answer Store nor the phase,
\* and a finalize started while the record of a failed upsert is in the
\* Answer Store computes its score over that store.
C21_FailedUpsertStillCounted ==
  /\ [][(inflight' # inflight /\ inflight' \subseteq inflight /\ dbResponses' = dbResponses)
          => (answers' = answers /\ currentPhase' = currentPhase)]_vars
  /\ [][(Len(subs') > Len(subs) /\ lostUpserts # {})
          => subs'[Len(subs')].totalScore = totalScoreOf(answers, questions)]_vars
\* a submitExam call is suspended at one of its awaits
finalizeInProgress == \E i \in 1..Len(subs) : subs[i].pc \in {"sweep", "update"}

\* C22: while a finalize is in progress no AnswerRecord changes and no new
\* upsert of a response is issued by saveAnswer; upserts under way may
\* complete.
C22_NoAnswersWhileFinalizing ==
  [][finalizeInProgress => (answers' = answers /\ inflight' \subseteq inflight)]_vars

\* C23: a change of page visibility raises at most the "Tab Switch Detected"
\* notice (it does when the listeners are registered and the page became
\* hidden): it schedules and calls no submit, does not set the pending
\* violation flag and changes no other state of the session.
C23_VisibilityAdvisory ==
  [][hidden' # hidden
       => /\ UNCHANGED <<indexVars, loadVars, uiVars, timerVars, submitVars, respVars>>
          /\ UNCHANGED <<isFullscreen, isFullscreenRef, pendingAutoSubmit,
                         fullscreenElement, fsRequest, fsEvents, violationsRaised>>
          /\ (listenersRegistered /\ hidden') => lastToast' = "Tab Switch Detected"
          /\ lastToast' \in {lastToast, "Tab Switch Detected"}]_vars

\* C23: the page is hidden while full screen is held, the notice is up, and
\* nothing is scheduled, pending or submitted
C23_Witness ==
  /\ listenersRegistered /\ hidden /\ fullscreenElement
  /\ lastToast = "Tab Switch Detected"
  /\ timeouts = 0 /\ ~pendingAutoSubmit /\ subs = <<>> /\ violationsRaised = 0
\* C24: the time_taken_minutes a finalize commits to the submissions row is
\* never negative, also when the finalize runs before the exam's start time.
C24_TimeTakenNotNegative ==
  dbSubmission # NoRow => dbSubmission.time_taken_minutes >= 0

\* the rows of table submissions for the student and the exam
pairSubmissions == submissionRows + (IF peerRow THEN 1 ELSE 0)

\* C25: table submissions never holds more than one row for the (student,
\* exam) pair, whatever registrations and session starts take place, a second
\* registration made before the first session has inserted its row included.
C25_OneSubmissionPerPair == pairSubmissions <= 1

\* C26: a session inserts at most one submissions row; the insert puts in
\* total_score 0, time_taken_minutes 0 and no submitted_at; the row exists
\* only once the questions are loaded, and no AnswerRecord or response upsert
\* exists without it.
C26_SubmissionCreatedOnce ==
  /\ [](submissionRows <= 1)
  /\ [](submissionRows > 0 => questions # <<>>)
  /\ []((answers # NoAnswers \/ inflight # {} \/ dbResponses # {}) => submissionRows = 1)
  /\ [][submissionRows' > submissionRows
          => dbSubmission' = [total_questions |-> Len(questions), total_score |-> 0,
                              time_taken_minutes |-> 0, submitted_at |-> NotSubmitted]]_vars

\* C26: the row was inserted once and answers have been accepted since
C26_Witness ==
  /\ submissionRows = 1 /\ pcCreate = "created"
  /\ answers # NoAnswers /\ dbResponses # {}
\* C27: in phase completed, reached by a finalize or by a load after the
\* exam's end, the page does not hold full screen (the claim also excludes a
\* request still being acquired).
C27_CompletedReleasesFullscreen ==
  currentPhase = "completed" => ~fullscreenElement

\* the selected_answer saveAnswer sends for a selection
durableSelection(selectedAnswer) ==
  IF selectedAnswer # NoSelection THEN toLowerCase(selectedAnswer) ELSE "n"

\* C28: when no upsert of saveAnswer is under way, none has returned an error
\* and no finalize has started, the row of every question that has an
\* AnswerRecord carries the selection of that record.
C28_LastWriteWins ==
  (inflight = {} /\ upsertErrors = 0 /\ subs = <<>>)
    => \A q \in QuestionIds :
         answers[q] # NoRow
           => \E r \in dbResponses :
                /\ r.question_id = q
                /\ r.selected_answer = durableSelection(answers[q].selectedAnswer)
\* C29: the parent is in phase completed only when the session's submissions
\* row carries a submitted_at, or the session never inserted a submissions
\* row.
C29_CompletedMeansSubmitted ==
  currentPhase = "completed"
    => \/ submissionRows = 0 /\ dbSubmission = NoRow
       \/ dbSubmission # NoRow /\ dbSubmission.submitted_at # NotSubmitted

\* C29: completed by the one successful update of a session that had
\* inserted its row
C29_Witness ==
  /\ currentPhase = "completed"
  /\ submissionRows = 1 /\ submittedWrites = 1
  /\ dbSubmission.submitted_at # NotSubmitted
\* the rows of table responses marked correct
correctRows == { r \in dbResponses : r.is_correct }

\* every AnswerRecord has its row, and the row carries the record's selection
storeIsDurable ==
  \A q \in QuestionIds :
    answers[q] # NoRow
      => \E r \in dbResponses :
           /\ r.question_id = q
           /\ r.selected_answer = durableSelection(answers[q].selectedAnswer)

\* C30: when the one finalize of a session has committed, every upsert of
\* saveAnswer has succeeded and the rows carry the selections of the Answer
\* Store the finalize started from, the committed total_score is the number
\* of rows with is_correct true, whatever the letter case of the stored
\* correct answers.
C30_ScoreMatchesCorrectRows ==
  \A i \in 1..Len(subs) :
    ( /\ subs[i].pc = "done" /\ Len(subs) = 1
      /\ ~subs[i].autoSubmit
      /\ inflight = {} /\ upsertErrors = 0
      /\ answers = subs[i].storeAtStart
      /\ storeIsDurable
      /\ \A q \in QuestionIds : answers[q] # NoRow => answers[q].status = "answered" )
    => dbSubmission.total_score = Cardinality(correctRows)

\* C31: every AnswerRecord of the Answer Store belongs to a loaded question
\* and has status answered or marked-for-review; the three counts of
\* getStatusCounts are not negative, sum to the number of loaded questions,
\* and notAnswered is the number of loaded questions without a record.
C31_StatusCountsPartition ==
  /\ \A q \in QuestionIds :
       answers[q] # NoRow
         => /\ q \in 1..Len(questions)
            /\ answers[q].status \in {"answered", "marked-for-review"}
  /\ getStatusCounts.answered >= 0
  /\ getStatusCounts.markedForReview >= 0
  /\ getStatusCounts.notAnswered >= 0
  /\ getStatusCounts.answered + getStatusCounts.markedForReview
       + getStatusCounts.notAnswered = Len(questions)
  /\ getStatusCounts.notAnswered
       = Cardinality({ q \in 1..Len(questions) : answers[q] = NoRow })

\* C31: one question answered, one marked for review, none left
C31_Witness ==
  /\ Len(questions) = NQ
  /\ getStatusCounts.answered >= 1
  /\ getStatusCounts.markedForReview >= 1
  /\ getStatusCounts.notAnswered = NQ - 2

\* the place of a phase in the order access, registration, exam, completed
phaseRank(phase) ==
  CASE phase = "access" -> 0
    [] phase = "registration" -> 1
    [] phase = "exam" -> 2
    [] phase = "completed" -> 3

\* C32: a step leaves the phase where it is or moves it to the next one of
\* access, registration, exam, completed; nothing leaves completed; completed
\* is entered from exam only; and in phase exam, where ExamInterface is
\* rendered, both the exam and the student are set.
C32_PhaseForwardOnly ==
  /\ [][/\ phaseRank(currentPhase') \in {phaseRank(currentPhase), phaseRank(currentPhase) + 1}
        /\ (currentPhase = "completed" => currentPhase' = "completed")
        /\ (currentPhase' = "completed" /\ currentPhase # "completed"
              => currentPhase = "exam")]_vars
  /\ [](currentPhase = "exam" => (exam # NoRow /\ student))
  /\ [](mounted => (exam # NoRow /\ student))

\* C32: completed was reached through registration and a finalized exam
C32_Witness ==
  /\ currentPhase = "completed" /\ exam # NoRow /\ student
  /\ pcLoad = "loaded" /\ submittedWrites >= 1
====
